---- MODULE Spec2Model ----
(***************************************************************************)
(* Mix Trainer: the dual-chain audio comparison engines (useEqEngine,      *)
(* useCompressorEngine, useGainCompareEngine).  One engine instance is     *)
(* modelled; its kind is fixed in the initial state.  A playback graph is  *)
(* one AudioBufferSourceNode with its two chains, each ending in a gain    *)
(* node.  Gain levels are kept symbolically: either 0 (muted) or           *)
(* dbToGain(db) for an integer db, which is never 0.                       *)
(***************************************************************************)
EXTENDS Integers, Sequences, FiniteSets, TLC

VARIABLES
    kind,             \* which hook: "eq", "comp" or "gain"
    hasAudio,         \* typeof AudioContext !== 'undefined'
    mounted,          \* the component using the hook is mounted
    audioUrl,         \* the audioUrl prop
    settings,         \* latest parameter per chain (targetFilter/userFilter, makeup, deltaDb)
    paramRef,         \* targetRef / userRef
    status,           \* useState<EngineStatus>
    isPlaying,        \* useState(false)
    isLooping,        \* useState
    monitorMode,      \* useState<MonitorMode>
    monitorModeRef,   \* useRef<MonitorMode>
    isLoopingRef,     \* useRef
    bufferRef,        \* 0 = null, else the URL the stored buffer was decoded from
    audioContextRef,  \* 0 = null, else the id of the open AudioContext
    ctxCount,         \* number of AudioContexts constructed so far
    nodesRef,         \* the node refs: source = 0 when all are null, else the source's index
    sources,          \* the AudioBufferSourceNodes that still exist, by number of creation
    srcCount,         \* number of AudioBufferSourceNodes created so far
    loads,            \* the runs of the load effect that are current or still in flight
    loadCount,        \* number of runs of the load effect so far
    pending,          \* startPlayback calls suspended at `await context.resume()`
    lateEnded,        \* the queued ended event of a source the refs no longer hold
    lastOp,           \* name of the last step taken
    challenge,        \* DbDeltaTrainer: the challenge being built or shown
    trainer           \* the useState values of the trainer component using the hook

vars == <<kind, hasAudio, mounted, audioUrl, settings, paramRef, status, isPlaying,
          isLooping, monitorMode, monitorModeRef, isLoopingRef, bufferRef,
          audioContextRef, ctxCount, nodesRef, sources, srcCount, loads, loadCount,
          pending, lateEnded, lastOp, challenge, trainer>>

\* ---------------------------------------------------------------- bounds
MaxLoads == 2
MaxSources == 3
MaxPending == 2

\* ------------------------------------------------------------- constants
Kinds == {"eq", "comp", "gain"}
NumUrls == 2
AudioOptions == 1..NumUrls
ParamValues == {-30, 6}

Chains(k) == IF k = "gain" THEN {"processed", "reference"} ELSE {"target", "user"}
InitialMode(k) == IF k = "gain" THEN "processed" ELSE "target"
InitialLooping(k) == k # "eq"

clamp(value, min, max) == IF value < min THEN min ELSE IF value > max THEN max ELSE value

\* gain levels: 0, or dbToGain(db)
Zero == [muted |-> TRUE, db |-> 0]
dbToGain(db) == [muted |-> FALSE, db |-> db]
Unity == dbToGain(0)

\* a GainNode's gain AudioParam: its value, and the setTargetAtTime event (if any)
SetValue(v) == [value |-> v, ramp |-> FALSE, target |-> v]
SetTargetAtTime(g, t) == [value |-> g.value, ramp |-> TRUE, target |-> t]
\* the level the gain settles at
FinalLevel(g) == IF g.ramp THEN g.target ELSE g.value

SetState(cur, new) == IF mounted THEN new ELSE cur

\* ------------------------------------------------------------ audio graph
\* the level a chain's gain is set to by startPlayback when it is the audible one
StartLevel(k, c, delta) ==
    CASE k = "eq" -> Unity
      [] k = "comp" -> dbToGain(clamp(paramRef[c], -24, 24))
      [] OTHER -> IF c = "processed" THEN dbToGain(delta) ELSE Unity

\* the level a chain's gain is ramped to by monitor when it becomes the audible one
MonitorLevel(k, c, delta) ==
    CASE k = "eq" -> Unity
      [] k = "comp" -> dbToGain(paramRef[c])
      [] OTHER -> IF c = "processed" THEN dbToGain(delta) ELSE Unity

\* a crossfade that raises the requested chain and leaves the other gains as they are
RampGainsUpOnly(k, mode, delta, gains) ==
    [c \in DOMAIN gains |->
        IF c = mode THEN SetTargetAtTime(gains[c], MonitorLevel(k, c, delta)) ELSE gains[c]]

\* cancelScheduledValues(now) then setTargetAtTime(level or 0, now, MIX_FADE) on each gain
RampGains(k, mode, delta, gains) ==
    [c \in DOMAIN gains |->
        SetTargetAtTime(gains[c], IF c = mode THEN MonitorLevel(k, c, delta) ELSE Zero)]

\* nodesRef.current with every ref null
NoNodes == [source |-> 0]

\* applyMonitorMode of useGainCompareEngine: false (nothing done) without nodes or context
applyMonitorMode(mode, delta, nodes) ==
    IF nodes.source = 0 \/ audioContextRef = 0 THEN nodes
    ELSE [nodes EXCEPT !.gain = RampGains("gain", mode, delta, @)]

\* the gains are set for the default monitor mode, whatever the current one
InitialGainsDefaultMode(k, delta) ==
    [c \in Chains(k) |-> SetValue(IF InitialMode(k) = c THEN StartLevel(k, c, delta) ELSE Zero)]

\* the gain values startPlayback writes before source.start()
InitialGains(k, delta) ==
    IF k = "gain"
    THEN [c \in Chains(k) |-> SetValue(StartLevel(k, c, delta))]
    ELSE [c \in Chains(k) |->
            SetValue(IF monitorModeRef = c THEN StartLevel(k, c, delta) ELSE Zero)]

\* applyFilterSettings: the values written to a BiquadFilterNode.  Q is in tenths.
applyFilterSettings(set) ==
    [frequency |-> clamp(set.frequency, 20, 20000),
     Q |-> clamp(set.q, 1, 180),
     type |-> set.type,
     gain |-> IF set.type \in {"highpass", "lowpass"} THEN 0
              ELSE clamp(set.gain, -24, 24)]

\* applyCompressorSettings: the values written to a DynamicsCompressorNode.  attack and
\* release are kept in milliseconds (the code divides by 1000 and clamps in seconds).
applyCompressorSettings(set) ==
    [threshold |-> clamp(set.threshold, -100, 0),
     ratio |-> clamp(set.ratio, 1, 20),
     attack |-> clamp(set.attack, 1, 1000),
     release |-> clamp(set.release, 10, 1000)]

\* the value written to a chain's processing node from the parameter v of its set:
\* applyFilterSettings writes a peaking filter's gain, applyCompressorSettings a
\* compressor's threshold; useGainCompareEngine has no processing node
NodeParam(k, v) ==
    CASE k = "eq" -> clamp(v, -24, 24)
      [] k = "comp" -> clamp(v, -100, 0)
      [] OTHER -> 0

\* the source is detached and disconnected but never told to stop
StopNodesNoStop(src) ==
    [src EXCEPT !.onended = FALSE,
                !.connected = FALSE]

\* what stopPlayback does to the source it holds: onended = null, stop(), and the
\* disconnect() of the source and of every node of its chains
\* a stop that leaves the ended handler attached
StopNodesKeepHandler(src) ==
    [src EXCEPT !.state = IF @ = "playing" THEN "stopped" ELSE @,
                !.connected = FALSE]

StopNodes(src) ==
    [src EXCEPT !.onended = FALSE,
                !.state = IF @ = "playing" THEN "stopped" ELSE @,
                !.connected = FALSE]

\* a source that no ref holds is garbage, and dropped from the model, once it can no
\* longer sound or call back: it has ended, or it was stopped, disconnected and has
\* no ended handler
Released(src) ==
    \/ src.state = "ended"
    \/ src.state # "playing" /\ ~src.connected /\ ~src.onended

Collect(srcs, held) ==
    [n \in {m \in DOMAIN srcs : m = held \/ ~Released(srcs[m])} |-> srcs[n]]

\* startPlayback that does not release the graph it replaces
stopPlaybackSkipped(srcs, nodes) == srcs

stopPlayback(srcs, nodes) ==
    IF nodes.source \notin DOMAIN srcs THEN srcs
    ELSE Collect([srcs EXCEPT ![nodes.source] = StopNodes(@)], 0)

\* the held source had reached the end of its buffer when it was stopped: its ended
\* event is already queued and is dispatched later, to whatever handler the stop left
queueEnded(srcs, nodes, queued) ==
    IF nodes.source \in DOMAIN srcs /\ srcs[nodes.source].state = "finished"
    THEN IF StopNodes(srcs[nodes.source]).onended THEN "attached" ELSE "detached"
    ELSE queued

\* the source is built and connected but source.start() is never called
NewSourceNotStarted(p) ==
    [state |-> "created",
     loop |-> isLoopingRef,
     buffer |-> p.buffer,
     ctx |-> p.ctx,
     onended |-> TRUE,
     connected |-> TRUE]

\* the source is built with the hook's default loop flag, whatever was set since
NewSourceDefaultLoop(p) ==
    [state |-> "playing",
     loop |-> InitialLooping(kind),
     buffer |-> p.buffer,
     ctx |-> p.ctx,
     onended |-> TRUE,
     connected |-> TRUE]

\* the source startPlayback creates for the suspended call p, connected and started,
\* with its ended handler
NewSource(p) ==
    [state |-> "playing",
     loop |-> isLoopingRef,
     buffer |-> p.buffer,
     ctx |-> p.ctx,
     onended |-> TRUE,
     connected |-> TRUE]

\* a graph whose second chain is not connected to the source that is started
NewNodesSplit(n, p) ==
    LET built == [source |-> n,
                  input |-> [c \in Chains(kind) |-> IF c = InitialMode(kind) THEN n ELSE 0],
                  param |-> [c \in Chains(kind) |-> NodeParam(kind, paramRef[c])],
                  gain |-> InitialGains(kind, p.delta)]
    IN  IF kind = "gain" THEN applyMonitorMode(monitorModeRef, p.delta, built) ELSE built

\* the refs startPlayback stores, after applyMonitorMode in useGainCompareEngine;
\* input is the source each chain was connected to by source.connect(...)
NewNodes(n, p) ==
    LET built == [source |-> n,
                  input |-> [c \in Chains(kind) |-> n],
                  param |-> [c \in Chains(kind) |-> NodeParam(kind, paramRef[c])],
                  gain |-> InitialGains(kind, p.delta)]
    IN  IF kind = "gain" THEN applyMonitorMode(monitorModeRef, p.delta, built) ELSE built

LiveSources == {n \in DOMAIN sources : sources[n].state = "playing"}

\* no continuation of `await startPlayback()` is waiting in the microtask queue
Quiescent == \A i \in DOMAIN pending : pending[i].phase # "apply"

RemoveAt(seq, i) == [j \in 1..(Len(seq) - 1) |-> IF j < i THEN seq[j] ELSE seq[j + 1]]

\* ------------------------------------------------------------------ load
\* loadAudio without its check for an AudioContext
NewLoadUnchecked(u) ==
    [url |-> u, cancelled |-> FALSE, phase |-> "fetch", result |-> "pending"]

\* loadAudio up to its first await: without an AudioContext it ends at once
NewLoad(u) ==
    IF hasAudio
    THEN [url |-> u, cancelled |-> FALSE, phase |-> "fetch", result |-> "pending"]
    ELSE [url |-> u, cancelled |-> FALSE, phase |-> "done", result |-> "nocap"]

\* a run of the effect that was cancelled and has returned is dropped from the model
Finished(ls) == [l \in {m \in DOMAIN ls : ~(ls[m].cancelled /\ ls[m].phase = "done")} |-> ls[l]]

\* the cleanup's `cancelled = true` for the current run
Cancel(ls) == Finished([ls EXCEPT ![loadCount].cancelled = TRUE])

\* the success path without its cancellation check
AppliesSuccessAlways(l) == TRUE

\* `if (cancelled) return` before the buffer is stored
AppliesSuccess(l) == ~loads[l].cancelled

\* the catch block without its cancellation check
AppliesFailureAlways(l) == TRUE

\* a catch block that only logs
AppliesFailureNever(l) == FALSE

\* `if (!cancelled)` in the catch block
AppliesFailure(l) == ~loads[l].cancelled

\* DbDeltaTrainer's challenge while only the engine is looked at
NoChallenge == [phase |-> "none", delta |-> 0, options |-> <<>>]

EngineInit ==
    /\ kind \in Kinds
    /\ hasAudio \in BOOLEAN
    /\ mounted = TRUE
    /\ audioUrl = 1
    /\ settings = [c \in Chains(kind) |-> 6]
    /\ paramRef = settings
    /\ status = IF hasAudio THEN "loading" ELSE "error"
    /\ isPlaying = FALSE
    /\ isLooping = InitialLooping(kind)
    /\ isLoopingRef = InitialLooping(kind)
    /\ monitorMode = InitialMode(kind)
    /\ monitorModeRef = InitialMode(kind)
    /\ bufferRef = 0
    /\ audioContextRef = IF hasAudio THEN 1 ELSE 0
    /\ ctxCount = IF hasAudio THEN 1 ELSE 0
    /\ nodesRef = NoNodes
    /\ sources = <<>>
    /\ srcCount = 0
    /\ loads = (1 :> NewLoad(1))
    /\ loadCount = 1
    /\ pending = <<>>
    /\ lateEnded = "none"
    /\ lastOp = "mount"

\* no trainer component is looked at
NoTrainer == [name |-> "none"]

Init == EngineInit /\ challenge = NoChallenge /\ trainer = NoTrainer

\* the effect cleanup: cancelled = true; stopPlayback(); close the context
Cleanup ==
    /\ loads' = Cancel(loads)
    /\ sources' = stopPlayback(sources, nodesRef)
    /\ lateEnded' = queueEnded(sources, nodesRef, lateEnded)
    /\ nodesRef' = NoNodes

\* the hook is rendered with another audioUrl: cleanup of the old effect, then loadAudio
\* for the new URL
UrlChange(u) ==
    /\ mounted /\ Quiescent
    /\ u # audioUrl
    /\ loadCount < MaxLoads
    /\ audioUrl' = u
    /\ loadCount' = loadCount + 1
    /\ loads' = (loadCount + 1 :> NewLoad(u)) @@ Cancel(loads)
    /\ sources' = stopPlayback(sources, nodesRef)
    /\ lateEnded' = queueEnded(sources, nodesRef, lateEnded)
    /\ nodesRef' = NoNodes
    /\ isPlaying' = FALSE
    /\ status' = IF hasAudio THEN "loading" ELSE "error"
    /\ audioContextRef' = IF hasAudio THEN ctxCount + 1 ELSE 0
    /\ ctxCount' = IF hasAudio THEN ctxCount + 1 ELSE ctxCount
    /\ lastOp' = "changeUrl"
    /\ UNCHANGED <<srcCount, challenge, kind, hasAudio, mounted, settings, paramRef, isLooping, monitorMode,
                   monitorModeRef, isLoopingRef, bufferRef, pending>>

\* the audioUrl prop changes while only the engine is looked at
ChangeUrl(u) == UrlChange(u) /\ UNCHANGED trainer

\* the component unmounts (tab change): cleanup only; later state setters do nothing
Unmount ==
    /\ mounted /\ Quiescent
    /\ mounted' = FALSE
    /\ Cleanup
    /\ isPlaying' = FALSE
    /\ audioContextRef' = 0
    /\ lastOp' = "unmount"
    /\ UNCHANGED <<loadCount, srcCount, trainer, challenge, kind, hasAudio, audioUrl, settings, paramRef, status, isLooping,
                   monitorMode, monitorModeRef, isLoopingRef, bufferRef, ctxCount, pending>>

LoadUnchanged ==
    UNCHANGED <<loadCount, srcCount, lateEnded, trainer, challenge, kind, hasAudio, mounted, audioUrl, settings, paramRef, isPlaying, isLooping,
                monitorMode, monitorModeRef, isLoopingRef, audioContextRef, ctxCount,
                nodesRef, sources, pending>>

\* `await fetch(audioUrl)` resolves with a response; a non-OK response throws, an OK one
\* goes on to `await response.arrayBuffer()` and `context.decodeAudioData`
FetchResponse(l, ok) ==
    /\ Quiescent
    /\ loads[l].phase = "fetch"
    /\ IF ok
       THEN /\ loads' = [loads EXCEPT ![l].phase = "decode"]
            /\ UNCHANGED status
       ELSE /\ loads' = Finished([loads EXCEPT ![l].phase = "done", ![l].result = "notok"])
            /\ status' = IF AppliesFailure(l) THEN SetState(status, "error") ELSE status
    /\ lastOp' = IF ok THEN "fetchOk" ELSE "fetchNotOk"
    /\ UNCHANGED bufferRef
    /\ LoadUnchanged

\* fetch, arrayBuffer or decodeAudioData rejects: the catch block
LoadReject(l) ==
    /\ Quiescent
    /\ loads[l].phase \in {"fetch", "decode"}
    /\ loads' = Finished([loads EXCEPT ![l].phase = "done", ![l].result = "rejected"])
    /\ status' = IF AppliesFailure(l) THEN SetState(status, "error") ELSE status
    /\ lastOp' = "loadReject"
    /\ UNCHANGED bufferRef
    /\ LoadUnchanged

\* `await context.decodeAudioData(arrayBuffer)` resolves
DecodeDone(l) ==
    /\ Quiescent
    /\ loads[l].phase = "decode"
    /\ loads' = Finished([loads EXCEPT ![l].phase = "done", ![l].result = "decoded"])
    /\ IF AppliesSuccess(l)
       THEN /\ bufferRef' = loads[l].url
            /\ status' = SetState(status, "ready")
       ELSE UNCHANGED <<bufferRef, status>>
    /\ lastOp' = "decodeDone"
    /\ LoadUnchanged

\* ------------------------------------------------------------- transport
\* the deltaDb prop of useGainCompareEngine, as closed over by the current callbacks:
\* DbDeltaTrainer passes challenge.delta
deltaDb ==
    IF kind # "gain" THEN 0
    ELSE IF trainer.name = "gain" THEN challenge.delta ELSE settings["processed"]

\* startPlayback up to `await context.resume()`: the call is suspended holding the
\* buffer, the context and (useGainCompareEngine) the deltaDb of its closure, and the
\* mode that useGainCompareEngine.monitor applies after it
Suspended(from, mode) ==
    [buffer |-> bufferRef,
     ctx |-> IF audioContextRef = 0 THEN ctxCount + 1 ELSE audioContextRef,
     from |-> from,
     mode |-> IF kind = "gain" /\ from = "monitor" THEN mode ELSE "-",
     delta |-> deltaDb,
     phase |-> "resume"]

\* `if (!buffer) return`, else ensureContext() and suspend
startPlayback(from, mode) ==
    IF bufferRef = 0
    THEN UNCHANGED <<pending, audioContextRef, ctxCount>>
    ELSE /\ pending' = Append(pending, Suspended(from, mode))
         /\ audioContextRef' = IF audioContextRef = 0 THEN ctxCount + 1 ELSE audioContextRef
         /\ ctxCount' = IF audioContextRef = 0 THEN ctxCount + 1 ELSE ctxCount

\* restartPlayback without its status check
RestartAllowedAlways == TRUE

\* `if (status !== 'ready') return` of restartPlayback
RestartAllowed == status = "ready"

\* monitor without its status check
MonitorAllowedAlways == TRUE

\* `if (status !== 'ready') return` of monitor
MonitorAllowed == status = "ready"

restartPlayback ==
    /\ mounted /\ Quiescent
    /\ RestartAllowed => Len(pending) < MaxPending
    /\ IF RestartAllowed
       THEN startPlayback("restart", monitorModeRef)
       ELSE UNCHANGED <<pending, audioContextRef, ctxCount>>
    /\ lastOp' = "restartPlayback"
    /\ UNCHANGED <<loadCount, srcCount, lateEnded, trainer, challenge, kind, hasAudio, mounted, audioUrl, settings, paramRef, status, isPlaying,
                   isLooping, monitorMode, monitorModeRef, isLoopingRef, bufferRef,
                   nodesRef, sources, loads>>

\* monitor that always rebuilds the graph
HasLiveNodesNever == FALSE

\* the nodes and the context that monitor needs to crossfade in place
HasLiveNodes == nodesRef.source # 0 /\ audioContextRef # 0

monitor(mode) ==
    /\ mounted /\ Quiescent
    /\ (MonitorAllowed /\ ~HasLiveNodes) => Len(pending) < MaxPending
    /\ IF ~MonitorAllowed
       THEN UNCHANGED <<monitorMode, monitorModeRef, nodesRef, pending, audioContextRef, ctxCount>>
       ELSE /\ monitorModeRef' = mode
            /\ monitorMode' = mode
            /\ IF HasLiveNodes
               THEN /\ nodesRef' = [nodesRef EXCEPT !.gain = RampGains(kind, mode, deltaDb, @)]
                    /\ UNCHANGED <<pending, audioContextRef, ctxCount>>
               ELSE /\ startPlayback("monitor", mode)
                    /\ UNCHANGED nodesRef
    /\ lastOp' = "monitor"
    /\ UNCHANGED <<loadCount, srcCount, lateEnded, trainer, challenge, kind, hasAudio, mounted, audioUrl, settings, paramRef, status, isPlaying,
                   isLooping, isLoopingRef, bufferRef, sources, loads>>

\* the resume promises of one context settle in the order they were made
FirstOnContext(i) ==
    \A j \in 1..(i - 1) : pending[j].phase = "resume" => pending[j].ctx # pending[i].ctx

InsertAt(seq, k, e) ==
    [j \in 1..(Len(seq) + 1) |-> IF j < k THEN seq[j] ELSE IF j = k THEN e ELSE seq[j - 1]]

\* useGainCompareEngine.monitor runs applyMonitorMode(mode) after `await startPlayback()`:
\* its continuation joins the microtask queue, kept at the head of pending in order
AfterStart(i) ==
    LET rest == RemoveAt(pending, i)
        queued == Cardinality({j \in DOMAIN rest : rest[j].phase = "apply"})
    IN  IF kind = "gain" /\ pending[i].from = "monitor"
        THEN InsertAt(rest, queued + 1, [pending[i] EXCEPT !.phase = "apply"])
        ELSE rest

\* `context.resume()` resolves: stopPlayback(), build the graph, start the source
StartResume(i) ==
    /\ pending[i].phase = "resume"
    /\ FirstOnContext(i)
    /\ srcCount < MaxSources
    /\ srcCount' = srcCount + 1
    /\ sources' = (srcCount + 1 :> NewSource(pending[i])) @@ stopPlayback(sources, nodesRef)
    /\ lateEnded' = queueEnded(sources, nodesRef, lateEnded)
    /\ nodesRef' = NewNodes(srcCount + 1, pending[i])
    /\ isPlaying' = SetState(isPlaying, TRUE)
    /\ pending' = AfterStart(i)
    /\ lastOp' = IF pending[i].from = "monitor" THEN "startFromMonitor" ELSE "startFromRestart"
    /\ UNCHANGED <<loadCount, trainer, challenge, kind, hasAudio, mounted, audioUrl, settings, paramRef, status,
                   isLooping, monitorMode, monitorModeRef, isLoopingRef, bufferRef,
                   audioContextRef, ctxCount, loads>>

\* `context.resume()` rejects because the context was closed meanwhile: the call ends there
StartAbort(i) ==
    /\ pending[i].phase = "resume"
    /\ pending[i].ctx # audioContextRef
    /\ pending' = RemoveAt(pending, i)
    /\ lastOp' = "startAbort"
    /\ UNCHANGED <<loadCount, srcCount, lateEnded, trainer, challenge, kind, hasAudio, mounted, audioUrl, settings, paramRef, status, isPlaying,
                   isLooping, monitorMode, monitorModeRef, isLoopingRef, bufferRef,
                   audioContextRef, ctxCount, nodesRef, sources, loads>>

\* the rest of useGainCompareEngine.monitor: applyMonitorMode(mode) with its own closure
MonitorApply(i) ==
    /\ i = 1
    /\ pending[i].phase = "apply"
    /\ nodesRef' = applyMonitorMode(pending[i].mode, pending[i].delta, nodesRef)
    /\ pending' = RemoveAt(pending, i)
    /\ lastOp' = "monitorApply"
    /\ UNCHANGED <<loadCount, srcCount, lateEnded, trainer, challenge, kind, hasAudio, mounted, audioUrl, settings, paramRef, status, isPlaying,
                   isLooping, monitorMode, monitorModeRef, isLoopingRef, bufferRef,
                   audioContextRef, ctxCount, sources, loads>>

\* the Stop button
stopPlaybackCall ==
    /\ mounted /\ Quiescent
    /\ sources' = stopPlayback(sources, nodesRef)
    /\ lateEnded' = queueEnded(sources, nodesRef, lateEnded)
    /\ nodesRef' = NoNodes
    /\ isPlaying' = FALSE
    /\ lastOp' = "stopPlayback"
    /\ UNCHANGED <<loadCount, srcCount, trainer, challenge, kind, hasAudio, mounted, audioUrl, settings, paramRef, status, isLooping,
                   monitorMode, monitorModeRef, isLoopingRef, bufferRef, audioContextRef,
                   ctxCount, loads, pending>>

setLooping(loop) ==
    /\ mounted /\ Quiescent
    /\ isLooping' = loop
    /\ isLoopingRef' = loop
    /\ sources' = IF nodesRef.source \in DOMAIN sources
                  THEN [sources EXCEPT ![nodesRef.source].loop = loop]
                  ELSE sources
    /\ lastOp' = "setLooping"
    /\ UNCHANGED <<loadCount, srcCount, lateEnded, trainer, challenge, kind, hasAudio, mounted, audioUrl, settings, paramRef, status, isPlaying,
                   monitorMode, monitorModeRef, bufferRef, audioContextRef, ctxCount,
                   nodesRef, loads, pending>>

\* a parameter effect that lets go of the graph instead of retuning it
ApplyParameterDropGraph(c, v) == NoNodes

\* the parameter effects: the live node, if any, is retuned
ApplyParameter(c, v) ==
    CASE kind = "eq" ->
            IF nodesRef.source = 0 THEN nodesRef
            ELSE [nodesRef EXCEPT !.param[c] = NodeParam(kind, v)]
      [] kind = "comp" ->
            IF nodesRef.source = 0 THEN nodesRef
            ELSE [nodesRef EXCEPT !.param[c] = NodeParam(kind, v),
                                  !.gain[c] =
                    SetValue(IF monitorModeRef = c THEN dbToGain(clamp(v, -24, 24)) ELSE Zero)]
      [] OTHER -> applyMonitorMode(monitorModeRef, v, nodesRef)

\* the presentation layer replaces a chain's parameters; the effect stores them in the ref
setParameters(c, v) ==
    /\ mounted /\ Quiescent
    /\ kind = "gain" => c = "processed"
    /\ v # settings[c]
    /\ settings' = [settings EXCEPT ![c] = v]
    /\ paramRef' = [paramRef EXCEPT ![c] = v]
    /\ nodesRef' = ApplyParameter(c, v)
    /\ lastOp' = "setParameters"
    /\ UNCHANGED <<loadCount, srcCount, lateEnded, trainer, challenge, kind, hasAudio, mounted, audioUrl, status, isPlaying, isLooping,
                   monitorMode, monitorModeRef, isLoopingRef, bufferRef, audioContextRef,
                   ctxCount, sources, loads, pending>>

\* the audio thread reaches the end of the buffer of a non-looping source
SourceFinish(n) ==
    /\ sources[n].state = "playing"
    /\ ~sources[n].loop
    /\ sources[n].ctx = audioContextRef
    /\ sources' = [sources EXCEPT ![n].state = "finished"]
    /\ lastOp' = "sourceFinish"
    /\ UNCHANGED <<loadCount, srcCount, lateEnded, trainer, challenge, kind, hasAudio, mounted, audioUrl, settings, paramRef, status, isPlaying,
                   isLooping, monitorMode, monitorModeRef, isLoopingRef, bufferRef,
                   audioContextRef, ctxCount, nodesRef, loads, pending>>

\* the ended event is dispatched: source.onended, if still attached, drops the refs
EndedEvent(n) ==
    /\ Quiescent
    /\ sources[n].state = "finished"
    /\ IF sources[n].onended
       THEN /\ nodesRef' = NoNodes
            /\ isPlaying' = SetState(isPlaying, FALSE)
       ELSE UNCHANGED <<nodesRef, isPlaying>>
    /\ sources' = Collect([sources EXCEPT ![n].state = "ended"], nodesRef'.source)
    /\ lastOp' = "endedEvent"
    /\ UNCHANGED <<loadCount, srcCount, lateEnded, trainer, challenge, kind, hasAudio, mounted, audioUrl, settings, paramRef, status, isLooping,
                   monitorMode, monitorModeRef, isLoopingRef, bufferRef, audioContextRef,
                   ctxCount, loads, pending>>

\* the ended event of a source that was stopped or replaced after it had finished is
\* dispatched: its handler, if the stop left one, drops the current refs
LateEndedEvent ==
    /\ Quiescent
    /\ lateEnded # "none"
    /\ lateEnded' = "none"
    /\ IF lateEnded = "attached"
       THEN /\ nodesRef' = NoNodes
            /\ isPlaying' = SetState(isPlaying, FALSE)
       ELSE UNCHANGED <<nodesRef, isPlaying>>
    /\ lastOp' = "endedEvent"
    /\ UNCHANGED <<loadCount, srcCount, trainer, challenge, kind, hasAudio, mounted, audioUrl,
                   settings, paramRef, status, isLooping, monitorMode, monitorModeRef,
                   isLoopingRef, bufferRef, audioContextRef, ctxCount, sources, loads, pending>>

Next ==
    \/ \E u \in AudioOptions : ChangeUrl(u)
    \/ Unmount
    \/ \E l \in DOMAIN loads : \E ok \in BOOLEAN : FetchResponse(l, ok)
    \/ \E l \in DOMAIN loads : LoadReject(l)
    \/ \E l \in DOMAIN loads : DecodeDone(l)
    \/ restartPlayback
    \/ \E m \in Chains(kind) : monitor(m)
    \/ \E i \in DOMAIN pending : StartResume(i)
    \/ \E i \in DOMAIN pending : StartAbort(i)
    \/ \E i \in DOMAIN pending : MonitorApply(i)
    \/ stopPlaybackCall
    \/ \E b \in BOOLEAN : setLooping(b)
    \/ \E c \in Chains(kind) : \E v \in ParamValues : setParameters(c, v)
    \/ \E n \in DOMAIN sources : SourceFinish(n)
    \/ \E n \in DOMAIN sources : EndedEvent(n)
    \/ LateEndedEvent

Spec == Init /\ [][Next]_vars

\* what runs without any caller: the audio thread playing a non-looping source to the
\* end of its buffer, the event loop dispatching ended events, and the continuations
\* of suspended starts
AudioThread == \E n \in DOMAIN sources : SourceFinish(n)
EventLoop == LateEndedEvent \/ \E n \in DOMAIN sources : EndedEvent(n)
Continuations ==
    \E i \in DOMAIN pending : StartResume(i) \/ StartAbort(i) \/ MonitorApply(i)

\* the audio clock and the event loop keep running
FairSpec == Spec /\ WF_vars(AudioThread) /\ WF_vars(EventLoop) /\ WF_vars(Continuations)

\* ================================================================ claims
StartCompleted == lastOp \in {"startFromRestart", "startFromMonitor"}

\* the chains whose gain settles at a non-zero level
Audible(nodes) == {c \in DOMAIN nodes.gain : FinalLevel(nodes.gain[c]) # Zero}

\* the chains whose gain value is non-zero now
Unmuted(nodes) == {c \in DOMAIN nodes.gain : nodes.gain[c].value # Zero}

\* every step but the bookkeeping of the last step's name
EngineVars ==
    <<kind, hasAudio, mounted, audioUrl, settings, paramRef, status, isPlaying, isLooping,
      monitorMode, monitorModeRef, isLoopingRef, bufferRef, audioContextRef, ctxCount,
      nodesRef, sources, srcCount, loads, loadCount, pending, lateEnded>>

C2_ExactlyOneAfterStart ==
    (StartCompleted /\ mounted /\ status = "ready")
        => /\ Cardinality(LiveSources) = 1
           /\ nodesRef.source \in LiveSources
           /\ isPlaying

\* start(); start(); start() has run to completion
C2_Witness ==
    /\ StartCompleted
    /\ status = "ready"
    /\ srcCount = 3
    /\ pending = <<>>
    /\ LiveSources = {3}
    /\ isPlaying

\* a step taken by the run l of the load effect
LoadStep(l) ==
    /\ l \in DOMAIN loads
    /\ loads[l].phase # "done"
    /\ l \notin DOMAIN loads' \/ loads'[l].phase # loads[l].phase

\* C3: a step of a cancelled load (the URL changed or the engine was torn down while
\* it was in flight) changes neither status nor the stored buffer, whether it
\* succeeds or fails; and status becomes ready or error, or the buffer is written,
\* only by a step of the current, uncancelled load.
C3_CancelledLoadDiscarded ==
    [][/\ \A l \in DOMAIN loads :
            (loads[l].cancelled /\ LoadStep(l)) => UNCHANGED <<status, bufferRef>>
       /\ (audioUrl' = audioUrl /\ (status' # status \/ bufferRef' # bufferRef))
            => (~loads[loadCount].cancelled /\ LoadStep(loadCount))]_vars

\* the decode of a cancelled load has completed while the current load is in flight
C3_Witness ==
    /\ lastOp = "decodeDone"
    /\ loadCount = 2
    /\ status = "loading"
    /\ bufferRef = 0

\* C4: restartPlayback invoked while status is loading or error changes nothing.
C4_RestartNoopUnlessReady ==
    [][(lastOp' = "restartPlayback" /\ status # "ready") => UNCHANGED EngineVars]_vars

\* restartPlayback was invoked while loading, with a decoded buffer of the previous URL
\* at hand, and nothing was started
C4_Witness ==
    /\ lastOp = "restartPlayback"
    /\ status = "loading"
    /\ bufferRef # 0
    /\ pending = <<>>
    /\ nodesRef = NoNodes

\* the load of the current URL ended with a non-OK response
CurrentNotOk ==
    /\ loadCount \in DOMAIN loads
    /\ ~loads[loadCount].cancelled
    /\ loads[loadCount].result = "notok"

\* C5: a non-OK response to the fetch of the current URL takes status from loading to
\* error; from then on, while the URL is unchanged, status stays error (it never
\* becomes ready) and restartPlayback changes nothing (no graph, isPlaying as before).
C5_NotOkIsError ==
    [][/\ CurrentNotOk' => status' = "error"
       /\ (~CurrentNotOk /\ CurrentNotOk') => status = "loading"
       /\ (CurrentNotOk /\ lastOp' = "restartPlayback") => UNCHANGED EngineVars]_vars

\* after a 404 for the second URL, restartPlayback was invoked and nothing started,
\* although the buffer of the first URL is still stored
C5_Witness ==
    /\ CurrentNotOk
    /\ lastOp = "restartPlayback"
    /\ status = "error"
    /\ bufferRef # 0
    /\ pending = <<>>
    /\ ~isPlaying

\* C6: once status is error, every step that leaves the URL unchanged leaves status
\* error: no operation and no late load result moves it away.
C6_ErrorIsTerminal ==
    [][(status = "error" /\ audioUrl' = audioUrl) => status' = "error"]_vars

\* a transport call was made in the error state of a URL that followed a loaded one
C6_Witness ==
    /\ status = "error"
    /\ hasAudio
    /\ bufferRef # 0
    /\ lastOp = "monitor"

\* C7: monitor invoked while a graph is held leaves the source node, the set of
\* existing sources, the suspended starts, the node parameters, the gain values and
\* isPlaying as they are; only the ramp targets of the gains change.
C7_MonitorKeepsSource ==
    [][(lastOp' = "monitor" /\ nodesRef.source # 0)
          => /\ nodesRef'.source = nodesRef.source
             /\ sources' = sources
             /\ srcCount' = srcCount
             /\ pending' = pending
             /\ isPlaying' = isPlaying
             /\ nodesRef'.param = nodesRef.param
             /\ \A c \in Chains(kind) : nodesRef'.gain[c].value = nodesRef.gain[c].value]_vars

\* monitor has switched a playing graph to the other chain
C7_Witness ==
    /\ lastOp = "monitor"
    /\ isPlaying
    /\ nodesRef.source \in LiveSources
    /\ monitorMode # InitialMode(kind)
    /\ nodesRef.gain[monitorMode].ramp

\* C8: when the start that a monitor call made (no graph being held) has completed on
\* a mounted engine, isPlaying is true, the held source is live, and the one chain
\* that is audible is the chain of the requested monitor mode.
C8_MonitorStartsWithMode ==
    (lastOp = "startFromMonitor" /\ mounted)
        => /\ isPlaying
           /\ nodesRef.source \in LiveSources
           /\ monitorMode = monitorModeRef
           /\ Audible(nodesRef) = {monitorMode}

\* the first graph was built by a monitor call for the non-default chain
C8_Witness ==
    /\ lastOp = "startFromMonitor"
    /\ mounted
    /\ srcCount = 1
    /\ monitorMode # InitialMode(kind)
    /\ Audible(nodesRef) = {monitorMode}

\* C9: monitor invoked while status is loading or error changes nothing: neither
\* monitorMode nor monitorModeRef, no graph, no gain.
C9_MonitorNoopUnlessReady ==
    [][(lastOp' = "monitor" /\ status # "ready") => UNCHANGED EngineVars]_vars

\* monitor was invoked while loading, with a buffer of the previous URL stored
C9_Witness ==
    /\ lastOp = "monitor"
    /\ status = "loading"
    /\ bufferRef # 0
    /\ pending = <<>>
    /\ monitorMode = InitialMode(kind)

\* C10: in the graph start() has just built, the gain of the chain named by the
\* monitor mode is the only one that is not 0.
C10_OneUnmutedAtStart ==
    (StartCompleted /\ mounted) => Unmuted(nodesRef) = {monitorModeRef}

\* the documented range of a makeup gain, in which the clamped and the raw value agree
InMakeupRange(v) == v >= -24 /\ v <= 24

\* the level of a chain that is fully audible: unity in the EQ engine and for the
\* reference chain, the chain's makeup gain in the compressor engine, the gain delta
\* for the processed chain
IsFullLevel(level, c) ==
    CASE kind = "eq" -> level = Unity
      [] kind = "comp" -> /\ level # Zero
                          /\ InMakeupRange(paramRef[c]) => level = dbToGain(paramRef[c])
      [] OTHER -> level = IF c = "processed" THEN dbToGain(settings["processed"]) ELSE Unity

\* C11: a monitor(m) call made with status ready on a held graph leaves every gain
\* with exactly one scheduled ramp (earlier ones are cancelled): chain m's ramp
\* targets that chain's full level, every other chain's ramp targets 0, so m, the
\* last mode requested, is the only chain with a non-zero target.
C11_MonitorRampTargets ==
    [][(lastOp' = "monitor" /\ status = "ready" /\ HasLiveNodes)
          => /\ \A c \in Chains(kind) :
                  /\ nodesRef'.gain[c].ramp
                  /\ IF c = monitorModeRef'
                     THEN IsFullLevel(nodesRef'.gain[c].target, c)
                     ELSE nodesRef'.gain[c].target = Zero
             /\ {c \in Chains(kind) : nodesRef'.gain[c].target # Zero} = {monitorModeRef'}]_vars

\* monitor has switched a playing graph, started on the other chain, back to the
\* default chain: the other chain's gain still has its value and ramps to 0
C11_Witness ==
    /\ lastOp = "monitor"
    /\ status = "ready"
    /\ nodesRef.source \in LiveSources
    /\ monitorModeRef = InitialMode(kind)
    /\ \E c \in Chains(kind) \ {monitorModeRef} :
          /\ nodesRef.gain[c].value # Zero
          /\ nodesRef.gain[c].ramp
          /\ nodesRef.gain[c].target = Zero
    /\ nodesRef.gain[monitorModeRef].target # Zero

\* C12: a stop() call, in any status and with or without a graph, leaves no graph
\* (no node refs, no live source) and isPlaying false, and changes neither status,
\* monitor mode, looping, the stored parameters nor the buffer; a stop() that
\* directly follows a stop() changes nothing at all.
C12_StopIdempotent ==
    [][(lastOp' = "stopPlayback")
          => /\ nodesRef' = NoNodes
             /\ LiveSources' = {}
             /\ ~isPlaying'
             /\ UNCHANGED <<status, monitorMode, monitorModeRef, isLooping, isLoopingRef,
                            settings, paramRef, bufferRef, audioUrl, pending>>
             /\ lastOp = "stopPlayback" => UNCHANGED vars]_vars

\* stop() has released the one graph that was built, on an engine whose monitor mode
\* was changed before
C12_Witness ==
    /\ lastOp = "stopPlayback"
    /\ status = "ready"
    /\ srcCount = 1
    /\ sources = <<>>
    /\ nodesRef = NoNodes
    /\ ~isPlaying
    /\ isLoopingRef
    /\ monitorMode # InitialMode(kind)

\* C13: a parameter update for a chain (filter or compressor settings, or the gain
\* delta) changes neither isPlaying, isLooping, monitorMode nor status, and leaves the
\* held source node, the existing sources and the suspended starts as they are.
C13_ParametersKeepTransport ==
    [][(lastOp' = "setParameters")
          => /\ UNCHANGED <<isPlaying, isLooping, isLoopingRef, monitorMode, monitorModeRef,
                            status, sources, srcCount, pending, bufferRef>>
             /\ nodesRef'.source = nodesRef.source]_vars

\* a chain's parameters were replaced while its graph was playing
C13_Witness ==
    /\ lastOp = "setParameters"
    /\ isPlaying
    /\ nodesRef.source \in LiveSources
    /\ \E c \in Chains(kind) : settings[c] = -30 /\ paramRef[c] = -30

\* the level the gain of the monitored chain c settles at, where the chain's
\* parameter set fixes it: the makeup gain (inside its documented range) in the
\* compressor engine, the gain delta for the processed chain
LevelInSync(c) ==
    CASE kind = "comp" ->
            InMakeupRange(settings[c]) => FinalLevel(nodesRef.gain[c]) = dbToGain(settings[c])
      [] kind = "gain" ->
            c = "processed" => FinalLevel(nodesRef.gain[c]) = dbToGain(settings[c])
      [] OTHER -> TRUE

\* C14: whenever a graph is held and no continuation is queued, every chain's
\* processing node has the clamped value of the chain's latest parameter set, and
\* the monitored chain's gain settles at the level of its latest parameter set,
\* whether the update came before the start, during its await, or during playback.
C14_NodesInSync ==
    (nodesRef.source # 0 /\ Quiescent /\ mounted)
        => /\ \A c \in Chains(kind) : nodesRef.param[c] = NodeParam(kind, settings[c])
           /\ LevelInSync(monitorModeRef)

\* C15: a setLooping(b) call, in any status, sets isLooping to b and the loop flag of
\* the held source (if any) to b, and rebuilds nothing: node refs, sources created,
\* suspended starts, status and isPlaying stay as they are; and after every step,
\* whenever a mounted engine holds a graph, its source's loop flag equals isLooping
\* (so every later start builds its source with loop = b).
C15_LoopFlagFollows ==
    [][/\ (mounted' /\ nodesRef'.source # 0)
            => sources'[nodesRef'.source].loop = isLooping'
       /\ (lastOp' = "setLooping")
            => /\ isLoopingRef' = isLooping'
               /\ nodesRef' = nodesRef
               /\ DOMAIN sources' = DOMAIN sources
               /\ \A n \in DOMAIN sources : sources'[n].state = sources[n].state
               /\ UNCHANGED <<srcCount, pending, status, isPlaying, monitorMode, bufferRef>>]_vars

\* looping was switched away from the hook's default while a graph was playing, and
\* the playing source has the new flag
C15_Witness ==
    /\ lastOp = "setLooping"
    /\ nodesRef.source \in LiveSources
    /\ isLooping # InitialLooping(kind)
    /\ sources[nodesRef.source].loop = isLooping

\* the steps that are calls of the presentation layer
CallerOps ==
    {"restartPlayback", "monitor", "stopPlayback", "setLooping", "setParameters",
     "changeUrl", "unmount"}

\* C16: the ended event of the held source drops the node refs and sets isPlaying
\* false; a source that loops never reaches the end of its buffer; and from every state
\* of a mounted engine with isPlaying true and isLooping false, unless a caller acts,
\* isPlaying eventually becomes false.
C16_NaturalEnd ==
    /\ [][/\ (lastOp' = "endedEvent" /\ nodesRef.source # 0
                /\ sources[nodesRef.source].state = "finished")
                => (nodesRef' = NoNodes /\ ~isPlaying')
          /\ (lastOp' = "sourceFinish")
                => \A n \in DOMAIN sources :
                      sources'[n].state # sources[n].state => ~sources[n].loop]_vars
    /\ (mounted /\ isPlaying /\ ~isLooping /\ lastOp \notin CallerOps)
          ~> (~isPlaying \/ lastOp \in CallerOps)

\* parameter sets with every field below, inside and above its documented interval
FilterInputs ==
    [type : {"peaking", "highpass", "lowpass"}, frequency : {5, 1000, 30000},
     q : {0, 10, 200}, gain : {-30, 6, 30}]
CompressorInputs ==
    [threshold : {-120, -30, 6}, ratio : {0, 4, 25}, attack : {0, 20, 2000},
     release : {5, 200, 2000}]

\* a gain level is 0 or the gain of a dB value between lo and hi
LevelWithin(level, lo, hi) == level = Zero \/ (level.db >= lo /\ level.db <= hi)

\* a gain level is 0 or the gain of a dB value of magnitude between lo and hi
MagnitudeWithin(level, lo, hi) ==
    level = Zero \/ LevelWithin(level, lo, hi) \/ LevelWithin(level, -hi, -lo)

\* C17: for any input, the values an engine writes to a node from a parameter set lie
\* in the documented intervals: EQ frequency in [20,20000], Q in [0.1,18], peaking gain
\* in [-24,24]; compressor threshold in [-100,0], ratio in [1,20], attack in
\* [0.001,1] s, release in [0.01,1] s, makeup gain level within [-24,24] dB; the
\* processed chain's gain delta of magnitude within [0.5,10] dB (whole dB here: 1..10).
C17_WritesClamped ==
    /\ \A f \in FilterInputs :
          LET w == applyFilterSettings(f)
          IN  w.frequency \in 20..20000 /\ w.Q \in 1..180 /\ w.gain \in -24..24
    /\ \A c \in CompressorInputs :
          LET w == applyCompressorSettings(c)
          IN  /\ w.threshold \in -100..0 /\ w.ratio \in 1..20
              /\ w.attack \in 1..1000 /\ w.release \in 10..1000
    /\ nodesRef.source # 0 =>
          \A c \in Chains(kind) :
             CASE kind = "eq" -> nodesRef.param[c] \in -24..24
               [] kind = "comp" ->
                     /\ nodesRef.param[c] \in -100..0
                     /\ LevelWithin(nodesRef.gain[c].value, -24, 24)
                     /\ LevelWithin(nodesRef.gain[c].target, -24, 24)
               [] OTHER ->
                     c = "processed" =>
                        /\ MagnitudeWithin(nodesRef.gain[c].value, 1, 10)
                        /\ MagnitudeWithin(nodesRef.gain[c].target, 1, 10)

\* a step taken by the load of the current URL
CurrentLoadStep ==
    /\ loadCount \in DOMAIN loads
    /\ ~loads[loadCount].cancelled
    /\ LoadStep(loadCount)

\* C18: when the load of a URL begins status is set to loading (error at once without
\* audio capability) and stays loading while that load is in flight; status becomes
\* ready only by the current load's decode completing after its fetch succeeded, with
\* the buffer of the current URL stored in the same step; a non-OK response, a
\* rejected fetch or a rejected decode of the current load sets status to error.
C18_LoadStatus ==
    [][/\ (lastOp' = "changeUrl")
            => status' = IF hasAudio THEN "loading" ELSE "error"
       /\ (mounted' /\ loadCount' \in DOMAIN loads'
                /\ loads'[loadCount'].phase \in {"fetch", "decode"})
            => status' = "loading"
       /\ (status' = "ready" /\ status # "ready")
            => /\ lastOp' = "decodeDone"
               /\ CurrentLoadStep
               /\ loads[loadCount].phase = "decode"
               /\ bufferRef' = audioUrl
       /\ (CurrentLoadStep /\ lastOp' = "decodeDone")
            => (status' = "ready" /\ bufferRef' = audioUrl)
       /\ (CurrentLoadStep /\ lastOp' \in {"fetchNotOk", "loadReject"})
            => (status' = "error" /\ bufferRef' = bufferRef)
       /\ ~hasAudio => status' = "error"]_vars

\* the load of a second URL has completed: its buffer has replaced the first one
C18_Witness ==
    /\ lastOp = "decodeDone"
    /\ status = "ready"
    /\ loadCount = 2
    /\ audioUrl = 2
    /\ bufferRef = 2

MIN_DB == 5
MAX_DB == 100
MIN_SEPARATION == 10
OPTION_COUNT == 4

\* magnitudes drawn for Number((Math.random() * (MAX_DB - MIN_DB) + MIN_DB).toFixed(1)):
\* both ends of the range, and values less than, exactly and more than
\* MIN_SEPARATION apart
Magnitudes == {MIN_DB, 14, 15, 24, 25, MAX_DB}

\* the values randomDelta and randomOption can return: sign * magnitude
randomDelta == {sign * m : sign \in {-1, 1}, m \in Magnitudes}

\* a sampler that never returns a negative option
randomOptionOneSided == Magnitudes

randomOption == {sign * m : sign \in {-1, 1}, m \in Magnitudes}

Abs(x) == IF x < 0 THEN -x ELSE x

\* a generator that accepts every candidate
isFarEnoughAlways(options, candidate, exact) == TRUE

\* [...options].every((value) => Math.abs(value - candidate) >= MIN_SEPARATION); for
\* two values exactly 1 dB apart the floating-point difference may come out just
\* below 1 (8.7 - 7.7), which exact = FALSE stands for
isFarEnough(options, candidate, exact) ==
    \A i \in DOMAIN options :
        \/ Abs(options[i] - candidate) > MIN_SEPARATION
        \/ Abs(options[i] - candidate) = MIN_SEPARATION /\ exact

\* Set.add: a value already in the set is not added again
SetAdd(options, candidate) ==
    IF \E i \in DOMAIN options : options[i] = candidate THEN options
    ELSE Append(options, candidate)

\* the orders the Fisher-Yates shuffle can leave an array of n elements in
Shuffles(n) == {f \in [1..n -> 1..n] : \A i, j \in 1..n : f[i] = f[j] => i = j}

GenInit ==
    /\ EngineInit
    /\ kind = "gain"
    /\ hasAudio
    /\ trainer = NoTrainer
    /\ \E d \in randomDelta :
          challenge = [phase |-> "generating", delta |-> d, options |-> <<d>>]

\* buildChallenge (handleNewChallenge): randomDelta(), then generateOptions starts
\* from new Set([actual])
buildChallenge(d) ==
    /\ challenge.phase = "built"
    /\ challenge' = [phase |-> "generating", delta |-> d, options |-> <<d>>]
    /\ UNCHANGED <<EngineVars, lastOp, trainer>>

\* one turn of generateOptions' loop: a candidate is drawn and added if far enough
drawCandidate(candidate, exact) ==
    /\ challenge.phase = "generating"
    /\ Len(challenge.options) < OPTION_COUNT
    /\ challenge' = [challenge EXCEPT !.options =
                        IF isFarEnough(@, candidate, exact) THEN SetAdd(@, candidate) ELSE @]
    /\ UNCHANGED <<EngineVars, lastOp, trainer>>

\* the loop has ended: the array is shuffled and returned
shuffleOptions(order) ==
    /\ challenge.phase = "generating"
    /\ Len(challenge.options) = OPTION_COUNT
    /\ challenge' = [challenge EXCEPT
                        !.phase = "built",
                        !.options = [i \in 1..OPTION_COUNT |-> challenge.options[order[i]]]]
    /\ UNCHANGED <<EngineVars, lastOp, trainer>>

GenNext ==
    \/ \E d \in randomDelta : buildChallenge(d)
    \/ \E candidate \in randomOption : \E exact \in BOOLEAN : drawCandidate(candidate, exact)
    \/ \E order \in Shuffles(OPTION_COUNT) : shuffleOptions(order)

GenSpec == GenInit /\ [][GenNext]_vars

\* C20: every challenge buildChallenge returns has exactly 4 options, any two of them
\* at least 1 dB apart, the true delta among them exactly once, and the delta and
\* every option in [-10,-0.5] or [0.5,10].
C20_ChallengeOptions ==
    (challenge.phase = "built")
        => /\ Len(challenge.options) = 4
           /\ \A i, j \in DOMAIN challenge.options :
                 i # j => Abs(challenge.options[i] - challenge.options[j]) >= 10
           /\ Cardinality({i \in DOMAIN challenge.options :
                              challenge.options[i] = challenge.delta}) = 1
           /\ Abs(challenge.delta) >= 5 /\ Abs(challenge.delta) <= 100
           /\ \A i \in DOMAIN challenge.options :
                 Abs(challenge.options[i]) >= 5 /\ Abs(challenge.options[i]) <= 100

\* a challenge was built whose delta is not the first option, with a pair of options
\* exactly 1 dB apart and options of both signs at the ends of the range
C20_Witness ==
    /\ challenge.phase = "built"
    /\ challenge.options[1] # challenge.delta
    /\ \E i, j \in DOMAIN challenge.options :
          challenge.options[i] - challenge.options[j] = 10
    /\ \E i, j \in DOMAIN challenge.options :
          challenge.options[i] = -100 /\ challenge.options[j] = 5

\* the turns of generateOptions' loop that add a value, and the return of the shuffled array
AcceptingDraw ==
    \E candidate \in randomOption : \E exact \in BOOLEAN :
        drawCandidate(candidate, exact) /\ challenge'.options # challenge.options
ShuffleStep == \E order \in Shuffles(OPTION_COUNT) : shuffleOptions(order)

\* Math.random keeps returning every value of its range: while some candidate would
\* be accepted, one that is accepted is eventually drawn
GenFairSpec == GenSpec /\ WF_vars(AcceptingDraw) /\ WF_vars(ShuffleStep)

\* C21: generateOptions' rejection loop cannot get stuck: whatever the delta and the
\* fewer than 4 values accepted so far, some candidate of the sampling range is more
\* than 1 dB away from all of them, so that under fair sampling the loop ends and the
\* challenge is built with its 4 options.
C21_LoopNeverStuck ==
    /\ [](challenge.phase = "generating" /\ Len(challenge.options) < OPTION_COUNT
            => \E candidate \in randomOption :
                  isFarEnough(challenge.options, candidate, FALSE))
    /\ (challenge.phase = "generating")
          ~> (challenge.phase = "built" /\ Len(challenge.options) = OPTION_COUNT)

\* three values are accepted, some candidate is rejected whatever the rounding and
\* some candidate is accepted only if the rounding is exact
C21_Witness ==
    /\ challenge.phase = "generating"
    /\ Len(challenge.options) = OPTION_COUNT - 1
    /\ \E candidate \in randomOption : ~isFarEnough(challenge.options, candidate, TRUE)
    /\ \E candidate \in randomOption :
          /\ isFarEnough(challenge.options, candidate, TRUE)
          /\ ~isFarEnough(challenge.options, candidate, FALSE)

\* ------------------------------------------------ response and score models
\* Levels, penalties and logarithms are kept in units of 1/10000 (fixed point); gains,
\* thresholds and makeups in tenths of a dB, Q and ratio in hundredths, frequencies in
\* Hz, attack and release in ms.

Max(a, b) == IF a > b THEN a ELSE b

\* Math.log at the arguments that occur, rounded to 1/10000
Ln(n) ==
    CASE n = 20 -> 29957 [] n = 40 -> 36889 [] n = 80 -> 43820
      [] n = 100 -> 46052 [] n = 200 -> 52983 [] n = 400 -> 59915
      [] n = 220 -> 53936 [] n = 440 -> 60868 [] n = 880 -> 67799
      [] n = 1000 -> 69078 [] n = 1200 -> 70901 [] n = 2000 -> 76009

\* Math.exp(-x) for x >= 0: halve x until the series 1 - x + x^2/2 - x^3/6 is accurate,
\* then square back; below 1/10000 from x = 16 on
RECURSIVE ExpNeg(_)
ExpNeg(x) ==
    IF x > 160000 THEN 0
    ELSE IF x <= 1250
         THEN 10000 - x + (x * x) \div 20000 - (x * x * x) \div 600000000
         ELSE LET h == ExpNeg(x \div 2) IN (h * h) \div 10000

\* Math.round: the nearest integer, halves up
Round(x) == (x + 5000) \div 10000

\* Math.abs(Math.log(a / b) / Math.log(2)): the distance of two frequencies in octaves
Octaves(a, b) == (Abs(Ln(a) - Ln(b)) * 10000) \div 6931

FilterShapes == {"peaking", "highpass", "lowpass"}

\* frequencies, gains and Q values the random target, the knobs and the clicks take
EqFrequencies == {1000, 1200, 2000}
EqGains == {-60, 0, 60}
EqQs == {100, 120}

\* randomizeFilter: a frequency in 20..20000, Q in 0.4..4.4, and for a peaking filter
\* a gain in -9..9, else gain 0
randomizeFilter ==
    {[type |-> t, frequency |-> f, q |-> q, gain |-> IF t = "peaking" THEN g ELSE 0] :
        t \in FilterShapes, f \in EqFrequencies, q \in EqQs, g \in EqGains}

\* a response that ignores the distance from the centre but halves the gain
approximateGainResponseHalved(set, frequency) == set.gain * 500

\* approximateGainResponse of the EQ trainer, in 1/10000 dB
approximateGainResponse(set, frequency) ==
    IF set.type = "peaking"
    THEN LET width == Max(1500, 10000000 \div (set.q * 18))
             distance == Octaves(frequency, set.frequency)
             ratio == (distance * 10000) \div width
             gaussian == IF ratio > 40000 THEN 0 ELSE ExpNeg((ratio * ratio) \div 10000)
         IN  (gaussian * set.gain) \div 10
    ELSE LET slope == Max(120, set.q)
             logRatio == IF set.type = "highpass" THEN Ln(frequency) - Ln(set.frequency)
                         ELSE Ln(set.frequency) - Ln(frequency)
             y == (slope * logRatio) \div 100
         IN  \* -12 / (1 + ratio^slope) for both shapes
             IF y >= 0
             THEN -((120000 * ExpNeg(y)) \div (ExpNeg(y) + 10000))
             ELSE -(1200000000 \div (10000 + ExpNeg(-y)))

\* a penalty that counts the 25 points of differing types for every pair
EqPenaltyTypeAlways(target, user) ==
    250000
    + Octaves(target.frequency, user.frequency) * 35
    + Abs(target.q - user.q) * 600
    + (IF target.type = "peaking" THEN Abs(target.gain - user.gain) * 1800 ELSE 0)

\* a penalty whose gain term looks at the user's type instead of the target's
EqPenaltyUserGain(target, user) ==
    (IF target.type # user.type THEN 250000 ELSE 0)
    + Octaves(target.frequency, user.frequency) * 35
    + Abs(target.q - user.q) * 600
    + (IF user.type = "peaking" THEN Abs(target.gain - user.gain) * 1800 ELSE 0)

\* the penalty computeMatchScore (EQ) accumulates
EqPenalty(target, user) ==
    (IF target.type # user.type THEN 250000 ELSE 0)
    + Octaves(target.frequency, user.frequency) * 35
    + Abs(target.q - user.q) * 600
    + (IF target.type = "peaking" THEN Abs(target.gain - user.gain) * 1800 ELSE 0)

\* a score that counts the gain difference twice
computeMatchScoreGainTwice(target, user) ==
    Max(0, Round(1000000 - EqPenalty(target, user) - Abs(target.gain - user.gain) * 1800))

\* computeMatchScore of the EQ trainer
computeMatchScore(target, user) == Max(0, Round(1000000 - EqPenalty(target, user)))

\* the compression trainer's constants (dB, and the score that counts as a match)
INPUT_MIN == -60
INPUT_MAX == 0
SUCCESS_THRESHOLD == 95

\* thresholds, ratios, attacks, releases and makeups the random target and the knobs take
CompThresholds == {-480, -240, -100}
CompRatios == {200, 400, 1200}
CompAttacks == {20, 40}
CompReleases == {220, 440}
CompMakeups == {-30, 0, 10, 30}

defaultUserSettings ==
    [threshold |-> -240, ratio |-> 400, attack |-> 20, release |-> 220, makeup |-> 0]

\* randomCompressionSettings: threshold in -48..-20, ratio in 1.5..8, attack in 8..78,
\* release in 80..730, makeup in -3..6
randomCompressionSettings ==
    {[threshold |-> th, ratio |-> r, attack |-> 20, release |-> 220, makeup |-> 0] :
        th \in {-480, -240}, r \in {200, 400}}

\* a compressor whose makeup gain is lost above the threshold
getCompressedLevelNoMakeup(inputDb, set) ==
    IF inputDb <= set.threshold * 1000 THEN inputDb + set.makeup * 1000
    ELSE set.threshold * 1000 + ((inputDb - set.threshold * 1000) * 100) \div set.ratio

\* getCompressedLevel: input and output level in 1/10000 dB
getCompressedLevel(inputDb, set) ==
    IF inputDb <= set.threshold * 1000 THEN inputDb + set.makeup * 1000
    ELSE LET delta == inputDb - set.threshold * 1000
             compressed == set.threshold * 1000 + (delta * 100) \div set.ratio
         IN  compressed + set.makeup * 1000

\* buildCurve of the compression trainer: the polyline's points, steps = 120
buildCurve(set) ==
    [i \in 0..120 |->
        LET inputDb == INPUT_MIN * 10000 + (i * (INPUT_MAX - INPUT_MIN) * 10000) \div 120
        IN  [inputDb |-> inputDb,
             outputDb |-> clamp(getCompressedLevel(inputDb, set),
                                INPUT_MIN * 10000, INPUT_MAX * 10000)]]

\* the loop of computeCurveDrift from sample i on
RECURSIVE DriftTotal(_, _, _)
DriftTotal(target, user, i) ==
    IF i > 30 THEN 0
    ELSE LET inputDb == INPUT_MIN * 10000 + (i * (INPUT_MAX - INPUT_MIN) * 10000) \div 30
         IN  Abs(getCompressedLevel(inputDb, target) - getCompressedLevel(inputDb, user))
             + DriftTotal(target, user, i + 1)

\* computeCurveDrift: samples = 30, the mean over samples + 1 inputs
computeCurveDrift(target, user) == DriftTotal(target, user, 0) \div 31

\* the penalty computeMatchScore (compression) accumulates
CompPenalty(target, user) ==
    Abs(target.threshold - user.threshold) * 1000
    + Abs((Ln(target.ratio) - Ln(100)) - (Ln(user.ratio) - Ln(100))) * 42
    + Abs(Ln(target.attack) - Ln(user.attack)) * 18
    + Abs(Ln(target.release) - Ln(user.release)) * 12
    + Abs(target.makeup - user.makeup) * 1200
    + (computeCurveDrift(target, user) * 11) \div 10

\* a score that is not floored at 0
computeMatchScoreCompUnfloored(target, user) == Round(1000000 - CompPenalty(target, user))

\* a score that rewards a louder makeup
computeMatchScoreCompLoud(target, user) ==
    Max(0, Round(1000000 - CompPenalty(target, user)
                 + 2 * Max(0, user.makeup - target.makeup) * 1200))

\* computeMatchScore of the compression trainer
computeMatchScoreComp(target, user) == Max(0, Round(1000000 - CompPenalty(target, user)))

\* --------------------------------------------------------- trainer components
\* EqMatchTrainer ("eq"), FreqSpotTrainer ("spot"), CompressionTrainer ("comp") and
\* DbDeltaTrainer ("gain"): the useState values of one mounted trainer, with the hook
\* it uses.  An effect that follows a state change runs in the same step as the change.
MaxAttempts == 2

\* the hook a trainer mounts
EngineOf(name) == IF name = "comp" THEN "comp" ELSE IF name = "gain" THEN "gain" ELSE "eq"

\* an EQ trainer that never announces a match
EqSuccessEffectNever(t) == t

\* the effect on [isSuccessVisible, score] of EqMatchTrainer
EqSuccessEffect(t) ==
    IF computeMatchScore(t.target, t.user) >= 90 /\ ~t.isSuccessVisible
    THEN [t EXCEPT !.isSuccessVisible = TRUE, !.showTarget = TRUE, !.showScore = TRUE]
    ELSE t

\* a compression trainer that announces a match from 90% on
CompSuccessEffectEarly(t) ==
    IF computeMatchScoreComp(t.target, t.user) >= 90 /\ ~t.isSuccessVisible
    THEN [t EXCEPT !.isSuccessVisible = TRUE, !.showScore = TRUE]
    ELSE t

\* the effect on [isSuccessVisible, score] of CompressionTrainer
CompSuccessEffect(t) ==
    IF computeMatchScoreComp(t.target, t.user) >= SUCCESS_THRESHOLD /\ ~t.isSuccessVisible
    THEN [t EXCEPT !.isSuccessVisible = TRUE, !.showScore = TRUE]
    ELSE t

\* the effects that run after a render of trainer state t
successEffect(t) ==
    IF t.name = "eq" THEN EqSuccessEffect(t)
    ELSE IF t.name = "comp" THEN CompSuccessEffect(t)
    ELSE t

\* the score the trainer's useMemo holds for state t
Score(t) ==
    IF t.name = "eq" THEN computeMatchScore(t.target, t.user)
    ELSE computeMatchScoreComp(t.target, t.user)

\* targetVisible of EqMatchTrainer
targetVisible(t) == t.showTarget \/ t.isSuccessVisible

\* FreqSpotTrainer's windows, in 1/10000 octave
BASE_WINDOW_OCT == 2500
EASY_WINDOW_MULTIPLIER == 2
windowOct(t) == IF t.hardMode THEN BASE_WINDOW_OCT ELSE BASE_WINDOW_OCT * EASY_WINDOW_MULTIPLIER

\* randomBoostFilter: a peaking boost of 4..10 dB with Q in 0.7..2.5
randomBoostFilter ==
    {[type |-> "peaking", frequency |-> f, gain |-> 60, q |-> 100] : f \in EqFrequencies}

\* the option values of the challenges a trainer is given
OptionSamples == {-MAX_DB, -MIN_DB, MIN_DB, MAX_DB}

\* the arrays generateOptions(actual) can return, each in ascending order (one of the
\* orders the shuffle can leave; the trainer renders a button per option)
generateOptions(actual) ==
    {CHOOSE o \in [1..OPTION_COUNT -> T] : \A i, j \in 1..OPTION_COUNT : i < j => o[i] < o[j] :
        T \in {U \in SUBSET (randomOption \cap OptionSamples) :
                  /\ Cardinality(U) = OPTION_COUNT
                  /\ actual \in U
                  /\ \A a, b \in U : a # b => Abs(a - b) >= MIN_SEPARATION}}

\* the challenges buildChallenge() can return
BuiltChallenges ==
    UNION {{[phase |-> "built", delta |-> d, options |-> o] : o \in generateOptions(d)} :
              d \in randomDelta}

\* the trainer states after mount
InitialTrainers(name) ==
    IF name = "eq"
    THEN {[name |-> "eq", target |-> f,
           user |-> [type |-> "peaking", frequency |-> 1200, gain |-> 0, q |-> 120],
           showTarget |-> FALSE, showScore |-> FALSE, isSuccessVisible |-> FALSE] :
             f \in randomizeFilter}
    ELSE IF name = "comp"
    THEN {[name |-> "comp", target |-> s, user |-> defaultUserSettings,
           showTargetDetails |-> FALSE, showScore |-> FALSE, isSuccessVisible |-> FALSE] :
             s \in randomCompressionSettings}
    ELSE IF name = "spot"
    THEN {[name |-> "spot", target |-> f, guessFrequency |-> 0, result |-> "pending",
           isSuccessVisible |-> FALSE, hardMode |-> FALSE, attempts |-> 0,
           hasAutoStarted |-> FALSE] : f \in randomBoostFilter}
    ELSE {[name |-> "gain", selected |-> 0, attempts |-> 0, isSuccessVisible |-> FALSE,
           hasAutoStarted |-> FALSE]}

\* the trainers whose handlers read the hook's status are mounted where audio loads;
\* the others, which never read it, where no AudioContext exists
TrainerInit ==
    /\ EngineInit
    /\ \E name \in {"eq", "spot", "comp", "gain"} :
          /\ kind = EngineOf(name)
          /\ hasAudio = (name \in {"spot", "gain"})
          /\ trainer \in {successEffect(t) : t \in InitialTrainers(name)}
          /\ IF name = "gain" THEN challenge \in BuiltChallenges
             ELSE challenge = NoChallenge

\* the engine state no trainer handler writes
EngineRest ==
    <<kind, hasAudio, mounted, audioUrl, settings, paramRef, status, isLooping, monitorMode,
      monitorModeRef, isLoopingRef, bufferRef, srcCount, loads, loadCount>>

\* a handler's call of stopPlayback()
StopFromHandler ==
    /\ sources' = stopPlayback(sources, nodesRef)
    /\ lateEnded' = queueEnded(sources, nodesRef, lateEnded)
    /\ nodesRef' = NoNodes
    /\ isPlaying' = FALSE

\* a handler's or an effect's call of restartPlayback()
RestartFromHandler ==
    IF RestartAllowed THEN startPlayback("restart", monitorModeRef)
    ELSE UNCHANGED <<pending, audioContextRef, ctxCount>>

\* a knob of EqMatchTrainer: setUserFilter((prev) => ({ ...prev, [field]: value })); the
\* gain knob is rendered for a peaking filter only
setUserFilter(field, value) ==
    /\ trainer.name = "eq"
    /\ field = "gain" => trainer.user.type = "peaking"
    /\ trainer' = successEffect([trainer EXCEPT !.user[field] = value])
    /\ lastOp' = "setUserFilter"
    /\ UNCHANGED <<EngineVars, challenge>>

\* EqMatchTrainer.handleSpectrumClick: the click sets the frequency, and the gain of a
\* peaking filter
handleSpectrumClick(frequency, gain) ==
    /\ trainer.name = "eq"
    /\ trainer' = successEffect([trainer EXCEPT
                      !.user.frequency = frequency,
                      !.user.gain = IF trainer.user.type = "peaking" THEN gain ELSE @])
    /\ lastOp' = "handleSpectrumClick"
    /\ UNCHANGED <<EngineVars, challenge>>

handleTypeChange(type) ==
    /\ trainer.name = "eq"
    /\ trainer' = successEffect([trainer EXCEPT !.user.type = type])
    /\ lastOp' = "handleTypeChange"
    /\ UNCHANGED <<EngineVars, challenge>>

\* EqMatchTrainer.handleRandomize: stopPlayback(), hide everything, a new target, and
\* restartPlayback() if the rendered isPlaying was true
handleRandomize(filter) ==
    /\ trainer.name = "eq"
    /\ mounted /\ Quiescent
    /\ isPlaying /\ RestartAllowed => Len(pending) < MaxPending
    /\ StopFromHandler
    /\ IF isPlaying THEN RestartFromHandler
       ELSE UNCHANGED <<pending, audioContextRef, ctxCount>>
    /\ trainer' = successEffect([trainer EXCEPT
                      !.showTarget = FALSE, !.showScore = FALSE,
                      !.isSuccessVisible = FALSE, !.target = filter])
    /\ lastOp' = "handleRandomize"
    /\ UNCHANGED <<EngineRest, challenge>>

\* the Show Target button, disabled while targetVisible
setShowTarget ==
    /\ trainer.name = "eq"
    /\ ~targetVisible(trainer)
    /\ trainer' = successEffect([trainer EXCEPT !.showTarget = TRUE])
    /\ lastOp' = "setShowTarget"
    /\ UNCHANGED <<EngineVars, challenge>>

\* the Show score / Hide score button of EqMatchTrainer and CompressionTrainer
setShowScore ==
    /\ trainer.name \in {"eq", "comp"}
    /\ trainer' = successEffect([trainer EXCEPT !.showScore = ~@])
    /\ lastOp' = "setShowScore"
    /\ UNCHANGED <<EngineVars, challenge>>

\* the button of the success overlay that closes it: setIsSuccessVisible(false)
setIsSuccessVisible ==
    /\ trainer.name \in {"eq", "spot", "comp", "gain"}
    /\ trainer.isSuccessVisible
    /\ trainer' = successEffect([trainer EXCEPT !.isSuccessVisible = FALSE])
    /\ lastOp' = "setIsSuccessVisible"
    /\ UNCHANGED <<EngineVars, challenge>>

\* a knob of CompressionTrainer: setUserSettings((prev) => ({ ...prev, [field]: value }))
setUserSettings(field, value) ==
    /\ trainer.name = "comp"
    /\ trainer' = successEffect([trainer EXCEPT !.user[field] = value])
    /\ lastOp' = "setUserSettings"
    /\ UNCHANGED <<EngineVars, challenge>>

\* CompressionTrainer.handleRandomize
handleRandomizeComp(target) ==
    /\ trainer.name = "comp"
    /\ trainer' = successEffect([trainer EXCEPT
                      !.target = target, !.user = defaultUserSettings,
                      !.showTargetDetails = FALSE, !.showScore = FALSE,
                      !.isSuccessVisible = FALSE])
    /\ lastOp' = "handleRandomize"
    /\ UNCHANGED <<EngineVars, challenge>>

\* the Reveal / Hide target numbers button
setShowTargetDetails ==
    /\ trainer.name = "comp"
    /\ trainer' = successEffect([trainer EXCEPT !.showTargetDetails = ~@])
    /\ lastOp' = "setShowTargetDetails"
    /\ UNCHANGED <<EngineVars, challenge>>

\* FreqSpotTrainer.handleSpectrumClick
handleSpectrumClickSpot(frequency) ==
    /\ trainer.name = "spot"
    /\ trainer.attempts < MaxAttempts
    /\ LET octDiff == Octaves(frequency, trainer.target.frequency)
           hit == octDiff <= windowOct(trainer)
       IN  trainer' = [trainer EXCEPT
                          !.attempts = @ + 1,
                          !.guessFrequency = frequency,
                          !.result = IF hit THEN "hit" ELSE "miss",
                          !.isSuccessVisible = hit]
    /\ lastOp' = "handleSpectrumClick"
    /\ UNCHANGED <<EngineVars, challenge>>

\* FreqSpotTrainer.randomizeBoost
randomizeBoost(filter) ==
    /\ trainer.name = "spot"
    /\ mounted /\ Quiescent
    /\ StopFromHandler
    /\ trainer' = [trainer EXCEPT
                      !.target = filter, !.guessFrequency = 0, !.result = "pending",
                      !.isSuccessVisible = FALSE, !.attempts = 0, !.hasAutoStarted = FALSE]
    /\ lastOp' = "randomizeBoost"
    /\ UNCHANGED <<EngineRest, pending, audioContextRef, ctxCount, challenge>>

\* the Hard mode button
setHardMode ==
    /\ trainer.name = "spot"
    /\ trainer' = [trainer EXCEPT !.hardMode = ~@]
    /\ lastOp' = "setHardMode"
    /\ UNCHANGED <<EngineVars, challenge>>

\* a handleSelect that marks every answer as correct
handleSelectMarks(value) == TRUE

\* what handleSelect stores in isSuccessVisible
handleSelectMarksCorrect(value) == value = challenge.delta

\* DbDeltaTrainer.handleSelect
handleSelect(value) ==
    /\ trainer.name = "gain"
    /\ trainer.attempts < MaxAttempts
    /\ trainer' = IF status # "ready" THEN trainer
                  ELSE [trainer EXCEPT
                           !.selected = value,
                           !.attempts = @ + 1,
                           !.isSuccessVisible = handleSelectMarksCorrect(value)]
    /\ lastOp' = "handleSelect"
    /\ UNCHANGED <<EngineVars, challenge>>

\* DbDeltaTrainer.handleNewChallenge
handleNewChallenge(built) ==
    /\ trainer.name = "gain"
    /\ mounted /\ Quiescent
    /\ StopFromHandler
    /\ challenge' = built
    /\ trainer' = [trainer EXCEPT
                      !.selected = 0, !.attempts = 0, !.isSuccessVisible = FALSE,
                      !.hasAutoStarted = FALSE]
    /\ lastOp' = "handleNewChallenge"
    /\ UNCHANGED <<EngineRest, pending, audioContextRef, ctxCount>>

\* an auto-start effect that does not record that it has run
autoStartRepeats ==
    /\ trainer.name \in {"spot", "gain"}
    /\ mounted /\ Quiescent
    /\ status = "ready" /\ ~trainer.hasAutoStarted
    /\ Len(pending) < MaxPending
    /\ trainer' = trainer
    /\ RestartFromHandler
    /\ lastOp' = "autoStart"
    /\ UNCHANGED <<EngineRest, nodesRef, sources, isPlaying, lateEnded, challenge>>

\* the effect on [hasAutoStarted, restartPlayback, status] of FreqSpotTrainer and
\* DbDeltaTrainer
autoStart ==
    /\ trainer.name \in {"spot", "gain"}
    /\ mounted /\ Quiescent
    /\ status = "ready" /\ ~trainer.hasAutoStarted
    /\ Len(pending) < MaxPending
    /\ trainer' = [trainer EXCEPT !.hasAutoStarted = TRUE]
    /\ RestartFromHandler
    /\ lastOp' = "autoStart"
    /\ UNCHANGED <<EngineRest, nodesRef, sources, isPlaying, lateEnded, challenge>>

TrainerNext ==
    \/ \E f \in EqFrequencies : setUserFilter("frequency", f)
    \/ \E g \in EqGains : setUserFilter("gain", g)
    \/ \E q \in EqQs : setUserFilter("q", q)
    \/ \E f \in EqFrequencies : \E g \in EqGains : handleSpectrumClick(f, g)
    \/ \E type \in FilterShapes : handleTypeChange(type)
    \/ \E filter \in randomizeFilter : handleRandomize(filter)
    \/ setShowTarget
    \/ setShowScore
    \/ setIsSuccessVisible
    \/ \E v \in CompThresholds : setUserSettings("threshold", v)
    \/ \E v \in CompRatios : setUserSettings("ratio", v)
    \/ \E v \in CompAttacks : setUserSettings("attack", v)
    \/ \E v \in CompReleases : setUserSettings("release", v)
    \/ \E v \in CompMakeups : setUserSettings("makeup", v)
    \/ \E target \in randomCompressionSettings : handleRandomizeComp(target)
    \/ setShowTargetDetails
    \/ \E f \in EqFrequencies : handleSpectrumClickSpot(f)
    \/ \E filter \in randomBoostFilter : randomizeBoost(filter)
    \/ setHardMode
    \/ \E i \in DOMAIN challenge.options : handleSelect(challenge.options[i])
    \/ \E built \in BuiltChallenges : handleNewChallenge(built)
    \/ autoStart
    \/ \E l \in DOMAIN loads : \E ok \in BOOLEAN : FetchResponse(l, ok)
    \/ \E l \in DOMAIN loads : LoadReject(l)
    \/ \E l \in DOMAIN loads : DecodeDone(l)
    \/ \E i \in DOMAIN pending : StartResume(i)
    \/ \E n \in DOMAIN sources : SourceFinish(n)
    \/ \E n \in DOMAIN sources : EndedEvent(n)
    \/ LateEndedEvent

TrainerSpec == TrainerInit /\ [][TrainerNext]_vars

\* ------------------------------------------------------- claims on the trainers
\* C22: computeMatchScore(x, x) = 100 for every valid x: for the EQ trainer with every
\* filter type, and for the compression trainer.
C22_SelfMatch ==
    /\ trainer.name = "eq" =>
          /\ computeMatchScore(trainer.target, trainer.target) = 100
          /\ computeMatchScore(trainer.user, trainer.user) = 100
          /\ \A f \in randomizeFilter : computeMatchScore(f, f) = 100
    /\ trainer.name = "comp" =>
          /\ computeMatchScoreComp(trainer.target, trainer.target) = 100
          /\ computeMatchScoreComp(trainer.user, trainer.user) = 100

\* the user has turned a low-pass filter into the target, and the score is 100
C22_Witness ==
    /\ trainer.name = "eq"
    /\ trainer.target.type = "lowpass"
    /\ trainer.user = trainer.target
    /\ lastOp = "handleTypeChange"
    /\ Score(trainer) = 100

\* C23: the EQ score is max(0, round(100 - P)) with P = 25 if the types differ
\* + 35 x the octave distance of the frequencies + 6 x |Q difference|
\* + 1.8 x |gain difference| (for a peaking target only); {peaking, 1000 Hz, +6 dB,
\* Q 1.0} against {peaking, 1000 Hz, -6 dB, Q 1.0} gives P = 21.6 and the score 78.
C23_EqScoreFormula ==
    /\ trainer.name = "eq" =>
          LET t == trainer.target
              u == trainer.user
              P == (IF t.type = u.type THEN 0 ELSE 25 * 10000)
                   + 35 * Octaves(t.frequency, u.frequency)
                   + 6 * Abs(t.q - u.q) * 100
                   + (IF t.type = "peaking" THEN 18 * Abs(t.gain - u.gain) * 100 ELSE 0)
          IN  /\ 1000000 - P >= -5000 => computeMatchScore(t, u) * 10000 <= 1000000 - P + 5000
              /\ 1000000 - P >= -5000 => computeMatchScore(t, u) * 10000 > 1000000 - P - 5000
              /\ 1000000 - P < -5000 => computeMatchScore(t, u) = 0
    /\ LET a == [type |-> "peaking", frequency |-> 1000, gain |-> 60, q |-> 100]
           b == [type |-> "peaking", frequency |-> 1000, gain |-> -60, q |-> 100]
       IN  EqPenalty(a, b) = 216000 /\ computeMatchScore(a, b) = 78

\* the trainer holds the pair of the example, and shows 78
C23_Witness ==
    /\ trainer.name = "eq"
    /\ trainer.target = [type |-> "peaking", frequency |-> 1000, gain |-> 60, q |-> 100]
    /\ trainer.user = [type |-> "peaking", frequency |-> 1000, gain |-> -60, q |-> 100]
    /\ Score(trainer) = 78
    /\ trainer.showScore

\* the user's settings with one parameter set to another value
WithField(set, field, value) == [set EXCEPT ![field] = value]

\* value w is at least as far from the target's value as v, on the same side of it
FartherSameSide(t, v, w) == (t <= v /\ v <= w) \/ (w <= v /\ v <= t)

\* the values a knob of the compression trainer takes
CompValues(field) ==
    IF field = "threshold" THEN CompThresholds
    ELSE IF field = "ratio" THEN CompRatios
    ELSE IF field = "attack" THEN CompAttacks
    ELSE IF field = "release" THEN CompReleases
    ELSE CompMakeups

C25_ScoreRange ==
    /\ trainer.name = "eq" =>
          /\ EqPenalty(trainer.target, trainer.user) >= 0
          /\ Score(trainer) \in 0..100
    /\ trainer.name = "comp" =>
          /\ CompPenalty(trainer.target, trainer.user) >= 0
          /\ Score(trainer) \in 0..100
          /\ CompPenalty(trainer.target, trainer.user) > 1005000 => Score(trainer) = 0

\* the user's compressor is so far off that 100 minus the penalty rounds below 0,
\* and the score shown is 0
C25_Witness ==
    /\ trainer.name = "comp"
    /\ lastOp = "setUserSettings"
    /\ CompPenalty(trainer.target, trainer.user) > 1005000
    /\ Score(trainer) = 0
    /\ trainer.showScore

\* C26: in the EQ trainer, whenever the score reaches 90 or more the success state is
\* visible without a further user action, the target and the score being revealed as
\* it is raised; a user filter identical to the target scores 100 and shows success.
C26_EqSuccessShown ==
    /\ [](trainer.name = "eq" /\ Score(trainer) >= 90
            => trainer.isSuccessVisible /\ targetVisible(trainer))
    /\ [](trainer.name = "eq" /\ trainer.user = trainer.target
            => Score(trainer) = 100 /\ trainer.isSuccessVisible)
    /\ [][trainer.name = "eq" /\ trainer'.isSuccessVisible
            /\ (~trainer.isSuccessVisible
                   \/ lastOp' \in {"handleRandomize", "setIsSuccessVisible"})
            => trainer'.showTarget /\ trainer'.showScore]_vars

\* a knob has brought the score to 90..99 and the overlay, the target and the score
\* are shown
C26_Witness ==
    /\ trainer.name = "eq"
    /\ lastOp = "setUserFilter"
    /\ Score(trainer) >= 90 /\ Score(trainer) < 100
    /\ trainer.isSuccessVisible /\ trainer.showTarget /\ trainer.showScore

\* C27: in the compression trainer, whenever the score reaches 95 or more the success
\* state is visible (with the score shown as it is raised), and it is never raised
\* while the score is below 95.
C27_CompSuccessShown ==
    /\ [](trainer.name = "comp" /\ Score(trainer) >= SUCCESS_THRESHOLD
            => trainer.isSuccessVisible)
    /\ [][trainer.name = "comp" /\ trainer'.isSuccessVisible
            /\ (~trainer.isSuccessVisible
                   \/ lastOp' \in {"handleRandomize", "setIsSuccessVisible"})
            => Score(trainer') >= SUCCESS_THRESHOLD /\ trainer'.showScore]_vars

\* a knob has brought the score to 95..99 and the overlay and the score are shown
C27_Witness ==
    /\ trainer.name = "comp"
    /\ lastOp = "setUserSettings"
    /\ Score(trainer) >= SUCCESS_THRESHOLD /\ Score(trainer) < 100
    /\ trainer.isSuccessVisible /\ trainer.showScore

\* C28: a hidden target is shown only on success or on request.  The EQ target curve
\* becomes visible only by the Show Target button or with a score of 90 or more, and a
\* new target hides it unless it is matched at once; the frequency-spot trainer shows
\* the target line only while the latest guess was a hit (isSuccessVisible implies
\* result = hit, a guess within the window of the target); the gain-delta trainer
\* marks the correct option only while the selected option is the true delta; a new
\* challenge hides the target again.
C28_TargetHidden ==
    /\ [](trainer.name = "eq" /\ targetVisible(trainer) /\ lastOp \in {"mount", "handleRandomize"}
            => Score(trainer) >= 90)
    /\ [][trainer.name = "eq" /\ targetVisible(trainer') /\ ~targetVisible(trainer)
            => lastOp' = "setShowTarget" \/ Score(trainer') >= 90]_vars
    /\ [](trainer.name = "spot" /\ trainer.isSuccessVisible
            => /\ trainer.result = "hit"
               /\ trainer.guessFrequency # 0
               /\ Octaves(trainer.guessFrequency, trainer.target.frequency)
                     <= BASE_WINDOW_OCT * EASY_WINDOW_MULTIPLIER)
    /\ [](trainer.name = "spot" /\ lastOp = "randomizeBoost" => ~trainer.isSuccessVisible)
    /\ [](trainer.name = "gain" /\ trainer.isSuccessVisible
            => trainer.selected = challenge.delta)
    /\ [](trainer.name = "gain" /\ lastOp = "handleNewChallenge"
            => ~trainer.isSuccessVisible /\ trainer.selected = 0)

\* in the gain-delta trainer a wrong option was picked after the right one: the
\* correct option is not marked any more
C28_Witness ==
    /\ trainer.name = "gain"
    /\ lastOp = "handleSelect"
    /\ trainer.attempts = 2
    /\ trainer.selected # 0 /\ trainer.selected # challenge.delta
    /\ ~trainer.isSuccessVisible

\* the inputs the curve and the drift are sampled at, in 1/10000 dB
CurveInput(i) == -600000 + i * 5000
DriftInput(i) == -600000 + i * 20000

\* C29: the compression transfer function is input + makeup at or below the threshold
\* and threshold + (input - threshold) / ratio + makeup above it; the displayed curve
\* (within the bounds of the plot) and the curve-drift term are both made of it.
C29_TransferFunction ==
    trainer.name = "comp" =>
        LET threshold(s) == s.threshold * 1000
            makeup(s) == s.makeup * 1000
            Transfer(x, s) ==
                IF x <= threshold(s) THEN x + makeup(s)
                ELSE threshold(s) + ((x - threshold(s)) * 100) \div s.ratio + makeup(s)
            RECURSIVE Sum(_)
            Sum(i) == IF i > 30 THEN 0
                      ELSE Abs(Transfer(DriftInput(i), trainer.target)
                               - Transfer(DriftInput(i), trainer.user)) + Sum(i + 1)
        IN  /\ \A i \in 0..120 :
                  /\ getCompressedLevel(CurveInput(i), trainer.user)
                        = Transfer(CurveInput(i), trainer.user)
                  /\ buildCurve(trainer.user)[i].inputDb = CurveInput(i)
                  /\ buildCurve(trainer.user)[i].outputDb
                        = clamp(Transfer(CurveInput(i), trainer.user), -600000, 0)
            /\ computeCurveDrift(trainer.target, trainer.user) = Sum(0) \div 31

\* the user's compressor has a makeup gain and a threshold inside the plotted range:
\* the curve has points below and above the threshold, and the curves differ
C29_Witness ==
    /\ trainer.name = "comp"
    /\ lastOp = "setUserSettings"
    /\ trainer.user.makeup = 30 /\ trainer.user.threshold = -100 /\ trainer.user.ratio = 1200
    /\ buildCurve(trainer.user)[100].outputDb = -70000
    /\ buildCurve(trainer.user)[120].outputDb = -61667
    /\ computeCurveDrift(trainer.target, trainer.user) > 0

\* C30: the peaking response evaluated at the filter's own centre frequency equals the
\* configured gain exactly (the Gaussian is 1 at distance 0), and evaluating it again
\* gives the same value.
C30_PeakAtCentre ==
    trainer.name \in {"eq", "spot"} =>
        /\ \A f \in ({trainer.target} \cup (IF trainer.name = "eq" THEN {trainer.user} ELSE {})) :
              f.type = "peaking" => approximateGainResponse(f, f.frequency) = f.gain * 1000
        /\ \A f \in randomizeFilter \cup randomBoostFilter :
              f.type = "peaking" => approximateGainResponse(f, f.frequency) = f.gain * 1000

\* the user has a peaking filter of +6 dB at 1.2 kHz: the response is 6 dB there and
\* less, but not 0, a quarter octave below and three quarters of an octave above
C30_Witness ==
    /\ trainer.name = "eq"
    /\ lastOp = "handleSpectrumClick"
    /\ trainer.user.type = "peaking" /\ trainer.user.gain = 60 /\ trainer.user.frequency = 1200
    /\ approximateGainResponse(trainer.user, 1200) = 60000
    /\ approximateGainResponse(trainer.user, 1000) < 60000
    /\ approximateGainResponse(trainer.user, 1000) > approximateGainResponse(trainer.user, 2000)
    /\ approximateGainResponse(trainer.user, 2000) > 0


\* ---------------------------------------------------------------------------
\* Graph lifetime against the load status and against late continuations

\* a playback graph exists: the stored source node is non-null
GraphExists == nodesRef.source # 0

\* C31: a playback graph exists only while status = ready: while status is
\* loading or error no graph exists and isPlaying is not true, also when a
\* start() called while ready finishes its await of the clock resume after the
\* URL changed or the engine was torn down.
C31_GraphOnlyWhileReady ==
    status \in {"loading", "error"} => ~GraphExists /\ ~isPlaying


\* C32: after stop() returns, playback stays stopped until a later start() or
\* monitor() call is made: the step that follows a stop() is never the
\* continuation of a start() invoked before it building a graph or setting
\* isPlaying = true.
C32_StopStaysStopped ==
    [][lastOp = "stopPlayback" =>
          ~(lastOp' \in {"startFromMonitor", "startFromRestart"}
            /\ (GraphExists' \/ isPlaying'))]_vars


\* C33: in every settled state of each engine isPlaying is true if and only if
\* a graph exists (the stored source node is non-null).
C33_PlayingIffGraph ==
    isPlaying <=> GraphExists


\* C34: an end-of-buffer event of a source that was already replaced or stopped
\* never affects the current graph: while the current graph's source is
\* playing, a dispatched ended event (necessarily of an older source) leaves
\* the node references and isPlaying as they are.
C34_LateEndedHarmless ==
    [][(/\ GraphExists
        /\ nodesRef.source \in DOMAIN sources
        /\ sources[nodesRef.source].state = "playing"
        /\ lastOp' = "endedEvent")
       => nodesRef' = nodesRef /\ isPlaying' = isPlaying]_vars

\* an ended event was dispatched while a newer source is playing, and the graph is intact
C34_Witness ==
    /\ lastOp = "endedEvent"
    /\ GraphExists
    /\ isPlaying
    /\ nodesRef.source \in DOMAIN sources
    /\ sources[nodesRef.source].state = "playing"


\* C35: whenever status = ready, the stored decoded buffer is the one decoded
\* from the engine's current URL (never the buffer of a previous URL and never
\* absent), for any sequence of URL changes and load completions in any order.
C35_ReadyBufferCurrent ==
    status = "ready" => bufferRef # 0 /\ bufferRef = audioUrl

\* the load of the second URL has completed while the decode of the first URL,
\* cancelled by the URL change, is still to complete
C35_Witness ==
    /\ status = "ready"
    /\ audioUrl = 2
    /\ bufferRef = 2
    /\ 1 \in DOMAIN loads
    /\ loads[1].cancelled
    /\ loads[1].phase = "decode"


\* C36: in the compressor engine the level at which the audible chain's gain
\* node is driven is the same whichever operation set it last: start(), a
\* parameter update and a monitor() crossfade all use the chain's makeup
\* clamped to [-24,24] dB, and the muted chain is always driven to 0.
C36_MakeupLevelUniform ==
    (kind = "comp" /\ GraphExists) =>
        \A c \in Chains(kind) :
            FinalLevel(nodesRef.gain[c]) =
                IF c = monitorModeRef THEN dbToGain(clamp(paramRef[c], -24, 24)) ELSE Zero


\* C37: in the EQ and compression trainers, dismissing the success panel
\* ("Keep tweaking" / "Keep listening") hides it, and it stays hidden while
\* the target and user parameters are unchanged: it is shown again only after
\* a change of the parameters (a score crossing the threshold from below, or
\* a new challenge that succeeded).
C37_DismissHides ==
    [][trainer.name \in {"eq", "comp"} =>
          /\ lastOp' = "setIsSuccessVisible" => ~trainer'.isSuccessVisible
          /\ (/\ ~trainer.isSuccessVisible
              /\ trainer'.target = trainer.target
              /\ trainer'.user = trainer.user) => ~trainer'.isSuccessVisible]_vars


\* C38: in the EQ match score the gain term is applied exactly when the
\* target's type is peaking, whatever the user's type: for a high-pass or
\* low-pass target the user's gain value has no influence on the score, and
\* for a peaking target the gain difference is penalised (by 1.8 per dB) even
\* when the user's type is not peaking.
C38_GainTermByTargetType ==
    trainer.name = "eq" =>
        \A g \in EqGains :
            LET user == [trainer.user EXCEPT !.gain = g]
                same == [trainer.user EXCEPT !.gain = trainer.target.gain]
            IN  IF trainer.target.type = "peaking"
                THEN /\ EqPenalty(trainer.target, user)
                          = EqPenalty(trainer.target, same)
                            + Abs(trainer.target.gain - g) * 1800
                     /\ (g # trainer.target.gain
                            /\ computeMatchScore(trainer.target, same) > 0)
                        => computeMatchScore(trainer.target, user)
                              < computeMatchScore(trainer.target, same)
                ELSE computeMatchScore(trainer.target, user)
                        = computeMatchScore(trainer.target, trainer.user)

\* a peaking target is matched against a user filter of another type whose gain
\* differs from the target's, and the score is lower than with the target's gain
C38_Witness ==
    /\ trainer.name = "eq"
    /\ trainer.target.type = "peaking"
    /\ trainer.user.type # "peaking"
    /\ trainer.user.gain # trainer.target.gain
    /\ computeMatchScore(trainer.target, trainer.user)
          < computeMatchScore(trainer.target,
                              [trainer.user EXCEPT !.gain = trainer.target.gain])


\* ----------------------------------------------- auto-start of the listening trainers
\* FreqSpotTrainer and DbDeltaTrainer are rendered with another audioUrl: the hook's
\* load effect runs again and the trainer's effect resets hasAutoStarted
changeAudioUrl(u) ==
    /\ trainer.name \in {"spot", "gain"}
    /\ UrlChange(u)
    /\ trainer' = [trainer EXCEPT !.hasAutoStarted = FALSE]

\* two of the challenges buildChallenge() can return, with different deltas
SampleChallenges ==
    {c \in BuiltChallenges :
        c.delta \in {-MIN_DB, MAX_DB} /\ c.options = <<-MAX_DB, -MIN_DB, MIN_DB, MAX_DB>>}

AutoStartInit ==
    /\ TrainerInit
    /\ trainer.name \in {"spot", "gain"}
    /\ trainer.name = "gain" => challenge \in SampleChallenges

AutoStartNext ==
    \/ \E f \in EqFrequencies : handleSpectrumClickSpot(f)
    \/ \E filter \in randomBoostFilter : randomizeBoost(filter)
    \/ setHardMode
    \/ setIsSuccessVisible
    \/ \E i \in DOMAIN challenge.options : handleSelect(challenge.options[i])
    \/ \E built \in SampleChallenges : handleNewChallenge(built)
    \/ autoStart
    \/ \E u \in AudioOptions : changeAudioUrl(u)
    \/ \E l \in DOMAIN loads : \E ok \in BOOLEAN : FetchResponse(l, ok)
    \/ \E l \in DOMAIN loads : LoadReject(l)
    \/ \E l \in DOMAIN loads : DecodeDone(l)
    \/ \E i \in DOMAIN pending : StartResume(i)
    \/ \E i \in DOMAIN pending : StartAbort(i)
    \/ \E n \in DOMAIN sources : SourceFinish(n)
    \/ \E n \in DOMAIN sources : EndedEvent(n)
    \/ LateEndedEvent

AutoStartSpec == AutoStartInit /\ [][AutoStartNext]_vars

\* the round is as after mount: no guess or selection, no attempts, success hidden
RoundReset ==
    /\ trainer.attempts = 0
    /\ ~trainer.isSuccessVisible
    /\ IF trainer.name = "spot"
       THEN trainer.guessFrequency = 0 /\ trainer.result = "pending"
       ELSE trainer.selected = 0

\* the auto-start effect is due: `status === 'ready' && !hasAutoStarted`
AutoStartDue == status = "ready" /\ ~trainer.hasAutoStarted

\* C39: in the frequency-spot and gain-delta trainers, requesting a new
\* challenge while status = ready stops the current playback, resets the round
\* (no guess/selection, attempts = 0, success hidden) and then automatically
\* restarts playback exactly once with the new target; likewise each time
\* status becomes ready for a new URL playback is auto-started exactly once.
\* As steps: a new challenge leaves no graph, a reset round and the auto-start
\* due; a due auto-start stays due until it runs; it runs only when due, makes
\* one start call for the current buffer (and the current challenge's delta)
\* and is then no longer due; only a new challenge or a new URL re-arms it.
C39_AutoStartOnce ==
    [][/\ (lastOp' \in {"randomizeBoost", "handleNewChallenge"} /\ status = "ready")
            => ~isPlaying' /\ ~GraphExists' /\ RoundReset' /\ AutoStartDue'
       /\ lastOp' = "changeUrl" => ~trainer'.hasAutoStarted /\ status' = "loading"
       /\ (status # "ready" /\ status' = "ready") => AutoStartDue'
       /\ (AutoStartDue /\ lastOp' # "autoStart") => (AutoStartDue' \/ status' # "ready")
       /\ lastOp' = "autoStart" =>
             /\ AutoStartDue
             /\ trainer'.hasAutoStarted
             /\ trainer' = [trainer EXCEPT !.hasAutoStarted = TRUE]
             /\ challenge' = challenge
             /\ Len(pending') = Len(pending) + 1
             /\ pending'[Len(pending')].buffer = audioUrl
             /\ trainer.name = "gain" => pending'[Len(pending')].delta = challenge.delta
             /\ UNCHANGED <<nodesRef, isPlaying>>
       /\ (trainer.hasAutoStarted /\ ~trainer'.hasAutoStarted)
            => lastOp' \in {"randomizeBoost", "handleNewChallenge", "changeUrl"}]_vars

\* the auto-start has run for a new challenge of the gain-delta trainer: an earlier
\* graph was stopped, and the suspended start holds the new challenge's delta
C39_Witness ==
    /\ trainer.name = "gain"
    /\ lastOp = "autoStart"
    /\ loadCount = 1
    /\ srcCount >= 1
    /\ ~GraphExists
    /\ trainer.hasAutoStarted
    /\ Len(pending) = 1
    /\ pending[1].delta = challenge.delta
    /\ sources = <<>>

====
